---------------------------- MODULE Spec2Model ----------------------------
(***************************************************************************)
(* A model of the ipnetwork crate: network values of the two address       *)
(* families, validated construction, the queries on a network (mask, size, *)
(* contains, nth, the address iterator, is_subnet_of, overlaps) and the    *)
(* set-subtraction engine of src/src/sub.rs.                                *)
(*                                                                          *)
(* Unsigned integers of the program (u32, u64, u128) are modelled as the   *)
(* set of the positions of their one-bits (bit 0 is the least significant  *)
(* bit), so that every bitwise operation of the source keeps its full      *)
(* width.  The u8 prefix and bit-position counters are modelled as         *)
(* integers with explicit wrap-around modulo 256.                          *)
(***************************************************************************)
EXTENDS Integers, Sequences, FiniteSets, TLC

(***************************************************************************)
(* Program constants.                                                       *)
(***************************************************************************)
IPV4_BITS == 32

IPV6_BITS == 128

\* The value range of a u8 (prefix, bit_position, max_bit_position).
U8_RANGE == 256

\* The width of the u64 that Ipv4Network::mask shifts in.
U64_BITS == 64

(***************************************************************************)
(* Bounds of the model.                                                     *)
(***************************************************************************)
\* Input addresses have their one-bits among the top SpanBits bits and the
\* lowest bit; input prefixes lie within SpanBits + 1 of either end.
SpanBits == 2

\* The longest list of subtrahends handed to the multi-subtrahend fold.
MaxSubtrahends == 2

\* The address iterator is run from its first address on networks of at most
\* WalkBits host bits, and for at most MaxWalk addresses of any network.
WalkBits == 2

MaxWalk == 4

(***************************************************************************)
(* Fixed-width unsigned integers as sets of one-bit positions.              *)
(***************************************************************************)
Bits(w) == 0 .. (w - 1)

And(a, b) == a \cap b

Or(a, b) == a \cup b

Xor(a, b) == (a \ b) \cup (b \ a)

Not(a, w) == Bits(w) \ a

\* a << n at width w, for a shift amount n < w.
Shl(a, n, w) == {b + n : b \in a} \cap Bits(w)

\* a >> n.
Shr(a, n) == {b - n : b \in {c \in a : c >= n}}

\* Truncation to width w (an `as` cast to a narrower type).
Truncate(a, w) == a \cap Bits(w)

MinBit(a) == CHOOSE k \in a : \A j \in a : k <= j

\* a - 1 at width w, wrapping.
Dec(a, w) ==
    IF a = {} THEN Bits(w)
    ELSE LET k == MinBit(a) IN (a \ {k}) \cup Bits(k)

\* The sum of a and 2^e as an unbounded natural number (a set of one-bit
\* positions).
RECURSIVE AddPow(_, _)
AddPow(a, e) == IF e \in a THEN AddPow(a \ {e}, e + 1) ELSE a \cup {e}

\* a + b as an unbounded natural number; the caller truncates it to the width
\* of the type and tells an overflow by a one-bit at or above the width.  The
\* sum is the bitwise sum plus the carries, which sit one bit up.
RECURSIVE Add(_, _)
Add(a, b) ==
    IF a \cap b = {} THEN a \cup b
    ELSE Add(Xor(a, b), {k + 1 : k \in a \cap b})

Overflows(a, w) == \E k \in a : k >= w

\* a < b and a <= b on unsigned integers: they differ, and the highest bit
\* they differ in is a one-bit of b.
Less(a, b) == \E k \in b \ a : \A j \in a \ b : j < k

Leq(a, b) == a = b \/ Less(a, b)

\* checked_shl / checked_shr followed by unwrap_or(0): 0 when the shift
\* amount is not below the width.
CheckedShl(a, n, w) == IF n >= w THEN {} ELSE Shl(a, n, w)

CheckedShr(a, n, w) == IF n >= w THEN {} ELSE Shr(a, n)

\* The one-bits that octet v contributes when it sits shift bits up.
OctetBits(v, shift) == {shift + i : i \in {j \in 0 .. 7 : (v \div (2 ^ j)) % 2 = 1}}

Ipv4Addr(a, b, c, d) ==
    OctetBits(a, 24) \cup OctetBits(b, 16) \cup OctetBits(c, 8) \cup OctetBits(d, 0)

(***************************************************************************)
(* Network values.  fam is the address family, which is the Rust type      *)
(* (Ipv4Network, Ipv6Network) or the tag of the IpNetwork enum.            *)
(***************************************************************************)
Net(fam, addr, prefix) == [fam |-> fam, addr |-> addr, prefix |-> prefix]

NoNet == Net("V4", {}, 0)

Width(fam) == IF fam = "V4" THEN IPV4_BITS ELSE IPV6_BITS

\* ip() and prefix(): the stored address and prefix, as given.
Ip(n) == n.addr

Prefix(n) == n.prefix

Ok(n) == [ok |-> TRUE, net |-> n]

\* Err(IpNetworkError::InvalidPrefix), and None of new_checked.
InvalidPrefix == [ok |-> FALSE, net |-> NoNet]

\* Ipv4Network::new, and a faulty variant of it that rejects prefix 32 too.
New4OffByOne(addr, prefix) ==
    IF prefix >= IPV4_BITS THEN InvalidPrefix ELSE Ok(Net("V4", addr, prefix))

New4(addr, prefix) ==
    IF prefix > IPV4_BITS THEN InvalidPrefix ELSE Ok(Net("V4", addr, prefix))

\* Ipv6Network::new_checked.
NewChecked6(addr, prefix) ==
    IF prefix > IPV6_BITS THEN InvalidPrefix ELSE Ok(Net("V6", addr, prefix))

\* Ipv6Network::new: Ok of what new_checked gives, InvalidPrefix for None.
New6(addr, prefix) ==
    LET checked == NewChecked6(addr, prefix)
    IN  IF checked.ok THEN Ok(checked.net) ELSE InvalidPrefix

New(fam, addr, prefix) ==
    IF fam = "V4" THEN New4(addr, prefix) ELSE New6(addr, prefix)

\* Ipv4Network::mask: !(0xffffffff as u64 >> prefix) as u32.
Mask4(prefix) ==
    Truncate(Not(Shr(Bits(IPV4_BITS), prefix), U64_BITS), IPV4_BITS)

\* Ipv6Network::mask: 0 for prefix 0, else u128::MAX << (128 - prefix); before
\* it a faulty variant without the case of prefix 0, whose shift amount wraps.
Mask6Unguarded(prefix) ==
    Shl(Bits(IPV6_BITS), (IPV6_BITS - prefix) % IPV6_BITS, IPV6_BITS)

Mask6(prefix) ==
    IF prefix = 0 THEN {}
    ELSE Shl(Bits(IPV6_BITS), IPV6_BITS - prefix, IPV6_BITS)

Mask(n) == IF n.fam = "V4" THEN Mask4(n.prefix) ELSE Mask6(n.prefix)

\* network(): addr & mask.
Network(n) == And(n.addr, Mask(n))

\* broadcast(): addr | !mask.
Broadcast(n) == Or(n.addr, Not(Mask(n), Width(n.fam)))

\* contains(ip): (ip & mask) == network(); before it a faulty variant that
\* compares with the stored address.
ContainsStoredAddress(n, ip) == And(ip, Mask(n)) = n.addr

Contains(n, ip) ==
    LET net == Network(n)
        mask == Mask(n)
    IN  And(ip, mask) = net

\* Ipv4Network::size: (2 as u64).pow(32 - prefix); before it a faulty variant
\* that computes the power in 32 bits.
Size4In32Bits(n) == Truncate({IPV4_BITS - n.prefix}, IPV4_BITS)

Size4(n) ==
    LET host_bits == IPV4_BITS - n.prefix
    IN  Truncate({host_bits}, U64_BITS)

\* Ipv6Network::size: u128::MAX for prefix 0, else 1 << (128 - prefix); before
\* it a faulty variant without the case of prefix 0, whose shift amount wraps.
Size6Unguarded(n) == Shl({0}, (IPV6_BITS - n.prefix) % IPV6_BITS, IPV6_BITS)

Size6(n) ==
    IF n.prefix = 0 THEN Bits(IPV6_BITS)
    ELSE Shl({0}, IPV6_BITS - n.prefix, IPV6_BITS)

Size(n) == IF n.fam = "V4" THEN Size4(n) ELSE Size6(n)

\* The outcome of one call of next(): Some(item), None, or a panic, with the
\* iterator's state after the call.
StepSome(item, after) == [out |-> "Some", item |-> item, after |-> after]

StepNone(after) == [out |-> "None", item |-> NoNet, after |-> after]

StepPanic(after) == [out |-> "Panic", item |-> NoNet, after |-> after]

\* What a query returns: Some(address), None, a bool, or a panic; Pending
\* before the call.
Pending == [kind |-> "Pending", bits |-> {}, flag |-> FALSE]

SomeAddr(a) == [kind |-> "Some", bits |-> a, flag |-> FALSE]

NoneAddr == [kind |-> "None", bits |-> {}, flag |-> FALSE]

Truth(b) == [kind |-> "Bool", bits |-> {}, flag |-> b]

Aborted == [kind |-> "Panic", bits |-> {}, flag |-> FALSE]

\* nth(n): Some(network() + n) when n < size(), else None.  The addition is
\* in the width of the address: an overflow panics with overflow checks and
\* wraps without.  Before it a faulty variant that admits n = size().
NthInclusive(n, k, bld) ==
    IF Leq(k, Size(n))
    THEN LET sum == Add(Network(n), k)
         IN  IF bld = "debug" /\ Overflows(sum, Width(n.fam)) THEN Aborted
             ELSE SomeAddr(Truncate(sum, Width(n.fam)))
    ELSE NoneAddr

Nth(n, k, bld) ==
    IF Less(k, Size(n))
    THEN LET net == Network(n)
             sum == Add(net, k)
         IN  IF bld = "debug" /\ Overflows(sum, Width(n.fam)) THEN Aborted
             ELSE SomeAddr(Truncate(sum, Width(n.fam)))
    ELSE NoneAddr

\* Ipv4NetworkIterator / Ipv6NetworkIterator.  live is FALSE when the next
\* field of the Ipv6NetworkIterator is None; the next field of the
\* Ipv4NetworkIterator is a plain u64.
Cursor(fam, live, next, end) ==
    [fam |-> fam, live |-> live, next |-> next, end |-> end]

NoCursor == Cursor("V4", FALSE, {}, {})

\* Ipv4Network::iter: start = network() as u64, end = start + size().
Iter4(n) ==
    LET start == Network(n)
        end == Truncate(Add(start, Size4(n)), U64_BITS)
    IN  Cursor("V4", TRUE, start, end)

\* Ipv6Network::iter: start = addr & (MAX << (128 - prefix) or 0),
\* end = addr | (MAX >> prefix or 0).
Iter6(n) ==
    LET dec == n.addr
        max == Bits(IPV6_BITS)
        start == And(dec, CheckedShl(max, IPV6_BITS - n.prefix, IPV6_BITS))
        end == Or(dec, CheckedShr(max, n.prefix, IPV6_BITS))
    IN  Cursor("V6", TRUE, start, end)

Iter(n) == IF n.fam = "V4" THEN Iter4(n) ELSE Iter6(n)

\* Ipv4NetworkIterator::next; before it a faulty variant that goes on while
\* next <= end.
IterNext4Inclusive(c, bld) ==
    IF Leq(c.next, c.end)
    THEN StepSome(Truncate(c.next, IPV4_BITS),
                  [c EXCEPT !.next = Truncate(AddPow(c.next, 0), U64_BITS)])
    ELSE StepNone(c)

IterNext4(c, bld) ==
    IF Less(c.next, c.end)
    THEN LET next == Truncate(c.next, IPV4_BITS)
             sum == AddPow(c.next, 0)
         IN  IF bld = "debug" /\ Overflows(sum, U64_BITS) THEN StepPanic(c)
             ELSE StepSome(next, [c EXCEPT !.next = Truncate(sum, U64_BITS)])
    ELSE StepNone(c)

\* Ipv6NetworkIterator::next; before it a faulty variant that stops when next
\* has reached end, without yielding it.
IterNext6StopsBeforeEnd(c, bld) ==
    IF ~c.live \/ c.next = c.end THEN StepNone(c)
    ELSE StepSome(c.next,
                  [c EXCEPT !.next = Truncate(AddPow(c.next, 0), IPV6_BITS)])

IterNext6(c, bld) ==
    IF ~c.live THEN StepNone(c)
    ELSE IF c.next = c.end
    THEN StepSome(c.next, [c EXCEPT !.live = FALSE])
    ELSE LET sum == AddPow(c.next, 0)
         IN  IF bld = "debug" /\ Overflows(sum, IPV6_BITS) THEN StepPanic(c)
             ELSE StepSome(c.next,
                           [c EXCEPT !.next = Truncate(sum, IPV6_BITS)])

IterNext(c, bld) ==
    IF c.fam = "V4" THEN IterNext4(c, bld) ELSE IterNext6(c, bld)

\* Ipv6Network::is_subnet_of: other.ip() <= self.ip() and
\* other.broadcast() >= self.broadcast().
IsSubnetOf(self, other) ==
    Leq(Ip(other), Ip(self)) /\ Leq(Broadcast(self), Broadcast(other))

\* Ipv6Network::is_supernet_of.
IsSupernetOf(self, other) == IsSubnetOf(other, self)

\* Ipv6Network::overlaps; before it a faulty variant that looks for the
\* endpoints of self in other only.
OverlapsOneWay(self, other) ==
    Contains(other, Ip(self)) \/ Contains(other, Broadcast(self))

Overlaps(self, other) ==
    \/ Contains(other, Ip(self))
    \/ Contains(other, Broadcast(self))
    \/ Contains(self, Ip(other))
    \/ Contains(self, Broadcast(other))

(***************************************************************************)
(* The conversions from a network mask to a prefix length                   *)
(* (ipv4_mask_to_prefix, ipv6_mask_to_prefix, Ipv6Network::with_netmask).   *)
(***************************************************************************)
\* The width of one of the eight segments of an Ipv6Addr.
IPV6_SEGMENT_BITS == 16

\* What a conversion or a comparison returned: the variant, and the number or
\* the unsigned integer it carries.
Outcome(kind, num, bits) == [kind |-> kind, num |-> num, bits |-> bits]

NoOutcome == Outcome("Pending", 0, {})

\* Ok(prefix) of a Result<u8, IpNetworkError>.
OkPrefix(p) == Outcome("Ok", p, {})

\* Err(IpNetworkError::InvalidPrefix) of a Result<u8, IpNetworkError>.
ErrInvalidPrefix == Outcome("InvalidPrefix", 0, {})

MaxBit(a) == CHOOSE k \in a : \A j \in a : j <= k

\* leading_zeros of the w-bit value a.
LeadingZeros(a, w) == IF a = {} THEN w ELSE w - 1 - MaxBit(a)

\* ipv4_mask_to_prefix: the leading ones are counted as the leading zeros of
\* the complement, and the mask shifted left by that count in a u64 must
\* leave nothing in the low 32 bits.
Ipv4MaskToPrefix(mask) ==
    LET prefix == LeadingZeros(Not(mask, IPV4_BITS), IPV4_BITS)
    IN  IF And(Shl(mask, prefix, U64_BITS), Bits(IPV4_BITS)) # {}
        THEN ErrInvalidPrefix
        ELSE OkPrefix(prefix)

\* Ipv6Addr::segments: eight u16, the first one the top 16 bits.
Segments(mask) ==
    [i \in 1 .. 8 |->
        {b - (IPV6_BITS - IPV6_SEGMENT_BITS * i) :
            b \in {c \in mask : /\ c >= IPV6_BITS - IPV6_SEGMENT_BITS * i
                                /\ c < IPV6_BITS - IPV6_SEGMENT_BITS * (i - 1)}}]

\* The first loop of ipv6_mask_to_prefix, from segment i on with prefix bits
\* counted so far: a full segment adds 16 and goes on, an empty one stops,
\* any other one adds its leading ones and stops, or fails when a one-bit
\* follows them.  rest is the first segment the loop has not consumed.
RECURSIVE CountSetBits(_, _, _)
CountSetBits(segs, i, prefix) ==
    IF i > 8 THEN [err |-> FALSE, prefix |-> prefix, rest |-> i]
    ELSE IF segs[i] = Bits(IPV6_SEGMENT_BITS)
    THEN CountSetBits(segs, i + 1, prefix + IPV6_SEGMENT_BITS)
    ELSE IF segs[i] = {}
    THEN [err |-> FALSE, prefix |-> prefix, rest |-> i + 1]
    ELSE LET prefix_bits ==
                 LeadingZeros(Not(segs[i], IPV6_SEGMENT_BITS), IPV6_SEGMENT_BITS)
         IN  IF Shl(segs[i], prefix_bits, IPV6_SEGMENT_BITS) # {}
             THEN [err |-> TRUE, prefix |-> prefix, rest |-> i + 1]
             ELSE [err |-> FALSE, prefix |-> prefix + prefix_bits,
                   rest |-> i + 1]

\* ipv6_mask_to_prefix: the first loop, then every remaining segment must be
\* zero; before it a faulty variant without the second loop.
Ipv6MaskToPrefixNoTail(mask) ==
    LET counted == CountSetBits(Segments(mask), 1, 0)
    IN  IF counted.err THEN ErrInvalidPrefix ELSE OkPrefix(counted.prefix)

Ipv6MaskToPrefix(mask) ==
    LET segs == Segments(mask)
        counted == CountSetBits(segs, 1, 0)
    IN  IF counted.err \/ \E j \in counted.rest .. 8 : segs[j] # {}
        THEN ErrInvalidPrefix
        ELSE OkPrefix(counted.prefix)

\* Ipv6Network::with_netmask: the prefix of the mask, the address as given.
WithNetmask6(netaddr, netmask) ==
    LET prefix == Ipv6MaskToPrefix(netmask)
    IN  IF prefix.kind = "Ok" THEN Ok(Net("V6", netaddr, prefix.num))
        ELSE InvalidPrefix

(***************************************************************************)
(* NetworkSize (src/src/size.rs): the size of a network, V4(u32) or         *)
(* V6(u128).                                                                *)
(***************************************************************************)
V4(value) == [tag |-> "V4", value |-> value]

V6(value) == [tag |-> "V6", value |-> value]

\* From<u32> and From<u128> for NetworkSize.
FromU32(value) == V4(value)

FromU128(value) == V6(value)

\* NetworkSize::as_u128: a V4 value is widened (its 32 bits, zeros above),
\* a V6 value is taken as it is.
AsU128(s) ==
    IF s.tag = "V4" THEN Truncate(s.value, IPV4_BITS)
    ELSE Truncate(s.value, IPV6_BITS)

\* The results of the NetworkSize operations.
Flag(b) == Outcome(IF b THEN "true" ELSE "false", 0, {})

Ordering(o) == Outcome(o, 0, {})

\* One write of a width-bit unsigned integer to the hasher.
Hashed(width, a) == Outcome("Hashed", width, a)

OkU32(a) == Outcome("Ok", 0, a)

ErrNetworkIsTooLarge == Outcome("NetworkIsTooLarge", 0, {})

\* PartialEq for NetworkSize; before it a faulty variant that compares the
\* variants as a derived PartialEq does.
NetworkSizeEqDerived(self, other) == self = other

NetworkSizeEq(self, other) == AsU128(self) = AsU128(other)

\* Ord for NetworkSize: u128::cmp of the two values.
NetworkSizeCmp(self, other) ==
    LET a == AsU128(self)
        b == AsU128(other)
    IN  IF Less(a, b) THEN "Less" ELSE IF a = b THEN "Equal" ELSE "Greater"

\* Hash for NetworkSize: the u128 value is what the hasher is fed.
NetworkSizeHash(self) == Hashed(IPV6_BITS, AsU128(self))

\* TryFrom<NetworkSize> for u32; before it a faulty variant that truncates a
\* V6 value.
TryFromU32Truncating(value) ==
    IF value.tag = "V4" THEN OkU32(value.value)
    ELSE OkU32(Truncate(value.value, IPV4_BITS))

TryFromU32(value) ==
    IF value.tag = "V4" THEN OkU32(value.value) ELSE ErrNetworkIsTooLarge

(***************************************************************************)
(* The subtraction engine (src/src/sub.rs).                                 *)
(***************************************************************************)
\* Ipv4NetworkSubSet / Ipv6NetworkSubSet: the partition cursor.
SubSet(network, bit_position, max_bit_position) ==
    [network |-> network, bit_position |-> bit_position,
     max_bit_position |-> max_bit_position]

NoSubSet == SubSet({}, 0, 0)

\* Ipv4NetworkSubResult / Ipv6NetworkSubResult, and the outcome "Panic" of a
\* subtraction that aborts instead of returning.
Empty(fam) == [fam |-> fam, kind |-> "Empty", net |-> NoNet, range |-> NoSubSet]

SingleNetwork(n) ==
    [fam |-> n.fam, kind |-> "SingleNetwork", net |-> n, range |-> NoSubSet]

MultipleNetworks(fam, range) ==
    [fam |-> fam, kind |-> "MultipleNetworks", net |-> NoNet, range |-> range]

Panic(fam) == [fam |-> fam, kind |-> "Panic", net |-> NoNet, range |-> NoSubSet]

\* A u8 result: arithmetic overflow panics in a build with overflow checks
\* (debug) and wraps modulo 256 in one without (release).
U8Overflows(x) == x < 0 \/ x >= U8_RANGE

U8Wrap(x) == x % U8_RANGE

\* impl Sub for Ipv4Network, after four faulty variants of it: one that
\* returns the masked minuend for disjoint ranges, one that tests for Empty
\* first, one that swaps the two positions of the cursor, one that takes the
\* partition branch only when the prefix of self is not the longer one.
Sub4MaskedSingle(self, other) ==
    LET subtrahend == Network(self)
        minuend == Network(other)
        mask == Mask(self)
    IN  IF And(minuend, mask) = subtrahend
        THEN MultipleNetworks("V4", SubSet(minuend, 32 - other.prefix,
                                           32 - self.prefix))
        ELSE IF And(subtrahend, Mask(other)) = minuend
             THEN Empty("V4")
             ELSE SingleNetwork(Net("V4", subtrahend, self.prefix))

Sub4EmptyFirst(self, other) ==
    LET subtrahend == Network(self)
        minuend == Network(other)
        mask == Mask(self)
    IN  IF And(subtrahend, Mask(other)) = minuend
        THEN Empty("V4")
        ELSE IF And(minuend, mask) = subtrahend
             THEN MultipleNetworks("V4", SubSet(minuend, 32 - other.prefix,
                                                32 - self.prefix))
             ELSE SingleNetwork(self)

Sub4SwappedPositions(self, other) ==
    LET subtrahend == Network(self)
        minuend == Network(other)
        mask == Mask(self)
    IN  IF And(minuend, mask) = subtrahend
        THEN MultipleNetworks("V4", SubSet(minuend, 32 - self.prefix,
                                           32 - other.prefix))
        ELSE IF And(subtrahend, Mask(other)) = minuend
             THEN Empty("V4")
             ELSE SingleNetwork(self)

Sub4PrefixGuarded(self, other) ==
    LET subtrahend == Network(self)
        minuend == Network(other)
        mask == Mask(self)
    IN  IF self.prefix <= other.prefix /\ And(minuend, mask) = subtrahend
        THEN MultipleNetworks("V4", SubSet(minuend, 32 - other.prefix,
                                           32 - self.prefix))
        ELSE IF And(subtrahend, Mask(other)) = minuend
             THEN Empty("V4")
             ELSE SingleNetwork(self)

Sub4(self, other) ==
    LET subtrahend == Network(self)
        minuend == Network(other)
        mask == Mask(self)
    IN  IF And(minuend, mask) = subtrahend
        THEN LET max_bit_position == 32 - self.prefix
                 bit_position == 32 - other.prefix
             IN  MultipleNetworks("V4",
                     SubSet(minuend, bit_position, max_bit_position))
        ELSE LET other_mask == Mask(other)
             IN  IF And(subtrahend, other_mask) = minuend
                 THEN Empty("V4")
                 ELSE SingleNetwork(self)

\* impl Sub for Ipv6Network: the two positions are computed as 32 - prefix
\* in u8.
Sub6(self, other, bld) ==
    LET subtrahend == Network(self)
        minuend == Network(other)
        mask == Mask(self)
    IN  IF And(minuend, mask) = subtrahend
        THEN LET max_bit_position == 32 - self.prefix
                 bit_position == 32 - other.prefix
             IN  IF bld = "debug" /\ (U8Overflows(max_bit_position)
                                      \/ U8Overflows(bit_position))
                 THEN Panic("V6")
                 ELSE MultipleNetworks("V6",
                          SubSet(minuend, U8Wrap(bit_position),
                                 U8Wrap(max_bit_position)))
        ELSE LET other_mask == Mask(other)
             IN  IF And(subtrahend, other_mask) = minuend
                 THEN Empty("V6")
                 ELSE SingleNetwork(self)

\* The same-family subtraction of the two typed networks.
Sub(self, other, bld) ==
    IF self.fam = "V4" THEN Sub4(self, other) ELSE Sub6(self, other, bld)

\* impl Sub for IpNetwork: dispatch on both tags, panic on a mismatch; before
\* it a faulty variant that answers a mismatch with Empty.
IpSubMismatchEmpty(self, other, bld) ==
    IF self.fam = other.fam THEN Sub(self, other, bld) ELSE Empty(self.fam)

IpSub(self, other, bld) ==
    IF self.fam = "V4" /\ other.fam = "V4" THEN Sub4(self, other)
    ELSE IF self.fam = "V6" /\ other.fam = "V6" THEN Sub6(self, other, bld)
    ELSE Panic(self.fam)

\* Ipv4NetworkSubSet::next / Ipv6NetworkSubSet::next.  The shift of 1 by
\* bit_position overflows when bit_position is not below the width: a panic
\* with overflow checks, the amount taken modulo the width without.  Before
\* it a faulty variant that does not flip the bit at bit_position.
SubSetNextNoFlip(fam, range, bld) ==
    IF range.bit_position < range.max_bit_position
    THEN StepSome(Net(fam, And(range.network,
                               Not(Bits(range.bit_position), Width(fam))),
                      Width(fam) - range.bit_position),
                  [range EXCEPT !.bit_position = @ + 1])
    ELSE StepNone(range)

SubSetNext(fam, range, bld) ==
    IF range.bit_position < range.max_bit_position
    THEN LET w == Width(fam)
             bit_mask == Shl({0}, range.bit_position % w, w)
             prefix_mask == Not(Dec(bit_mask, w), w)
             address == And(Xor(range.network, bit_mask), prefix_mask)
             prefix == w - range.bit_position
             next_position == range.bit_position + 1
             overflow == \/ range.bit_position >= w
                         \/ U8Overflows(prefix)
                         \/ U8Overflows(next_position)
             made == New(fam, address, U8Wrap(prefix))
             after == [range EXCEPT !.bit_position = U8Wrap(next_position)]
         IN  IF bld = "debug" /\ overflow THEN StepPanic(range)
             ELSE IF made.ok THEN StepSome(made.net, after)
             ELSE StepPanic(after)
    ELSE StepNone(range)

\* Ipv4NetworkSubResult::next / Ipv6NetworkSubResult::next; before it a
\* faulty variant that keeps the exhausted cursor instead of becoming Empty.
SubResultNextKeepsCursor(res, bld) ==
    IF res.kind = "Empty" THEN StepNone(res)
    ELSE IF res.kind = "SingleNetwork"
    THEN StepSome(res.net, Empty(res.fam))
    ELSE LET inner == SubSetNext(res.fam, res.range, bld)
         IN  IF inner.out = "Some"
             THEN StepSome(inner.item, MultipleNetworks(res.fam, inner.after))
             ELSE IF inner.out = "None" THEN StepNone(res)
             ELSE StepPanic(MultipleNetworks(res.fam, inner.after))

SubResultNext(res, bld) ==
    IF res.kind = "Empty" THEN StepNone(res)
    ELSE IF res.kind = "SingleNetwork"
    THEN StepSome(res.net, Empty(res.fam))
    ELSE LET inner == SubSetNext(res.fam, res.range, bld)
         IN  IF inner.out = "Some"
             THEN StepSome(inner.item, MultipleNetworks(res.fam, inner.after))
             ELSE IF inner.out = "None" THEN StepNone(Empty(res.fam))
             ELSE StepPanic(MultipleNetworks(res.fam, inner.after))

\* Iterating a subtraction result to its end (collect): the items yielded,
\* and whether a call of next() panicked on the way.
RECURSIVE Collect(_, _, _)
Collect(res, bld, items) ==
    IF res.kind = "Panic" THEN [items |-> items, panicked |-> TRUE]
    ELSE LET step == SubResultNext(res, bld)
         IN  IF step.out = "Some"
             THEN Collect(step.after, bld, Append(items, step.item))
             ELSE [items |-> items, panicked |-> step.out = "Panic"]

\* One round of the loop of impl Sub<T>: every network of the current
\* sequence is replaced by what is left of it without the minuend of the
\* round (flat_map), in order.
RECURSIVE FlatMapSub(_, _, _)
FlatMapSub(partial, minuend, bld) ==
    IF partial = <<>> THEN [items |-> <<>>, panicked |-> FALSE]
    ELSE LET first == Collect(IpSub(Head(partial), minuend, bld), bld, <<>>)
             rest == FlatMapSub(Tail(partial), minuend, bld)
         IN  [items |-> first.items \o rest.items,
              panicked |-> first.panicked \/ rest.panicked]

\* The whole loop of impl Sub<T>, from the sequence built so far: one round
\* for each minuend of the list, in order.
RECURSIVE FoldFrom(_, _, _)
FoldFrom(partial, list, bld) ==
    IF list = <<>> THEN [items |-> partial, panicked |-> FALSE]
    ELSE LET round == FlatMapSub(partial, Head(list), bld)
         IN  IF round.panicked THEN round
             ELSE FoldFrom(round.items, Tail(list), bld)

(***************************************************************************)
(* The state machine.                                                       *)
(***************************************************************************)
VARIABLES
    build,        \* "debug": overflow checks on; "release": off
    lhs,          \* the left operand of a subtraction (self)
    rhs,          \* the right operand of a single subtraction (other)
    returned,     \* the value the single subtraction returned
    result,       \* the subtraction result being iterated
    yielded,      \* the networks next() has returned so far
    pc,           \* "start", "iter", "done" or "panicked"
    minuends,     \* the list handed to the multi-subtrahend subtraction
    applied,      \* how many of its members the fold has taken
    partial,      \* the sequence the fold has built so far
    request,      \* the arguments of a call of new()
    made,         \* what new() returned
    probe,        \* the address or index handed to a query
    op,           \* the query called, or how the address iterator was set
    answer,       \* what the query returned
    cursor,       \* the address iterator (Ipv4/Ipv6NetworkIterator)
    walked,       \* the addresses the address iterator has returned so far
    sizes,        \* the two NetworkSize values handed to a comparison
    outcome       \* what a conversion or a comparison of sizes returned

\* The variables of the queries and of the address iterator.
queryVars == <<probe, op, answer, cursor, walked>>

\* The variables of the subtractions and of construction.
subVars == <<returned, result, yielded, minuends, applied, partial, request,
             made>>

\* The variables of the conversions and of the NetworkSize values.
convVars == <<sizes, outcome>>

vars == <<build, lhs, rhs, returned, result, yielded, pc, minuends, applied,
          partial, request, made, probe, op, answer, cursor, walked, sizes,
          outcome>>

Builds == {"debug", "release"}

Families == {"V4", "V6"}

\* The inputs: addresses with one-bits among the top SpanBits bits and bit 0,
\* prefixes near either end of the range.
SampleBits(fam) == {Width(fam) - i : i \in 1 .. SpanBits} \cup {0}

SampleAddrs(fam) == SUBSET SampleBits(fam)

SamplePrefixes(fam) ==
    {p \in 0 .. Width(fam) : p <= SpanBits + 1 \/ p >= Width(fam) - 1}

SampleNets(fam) ==
    {Net(fam, a, p) : a \in SampleAddrs(fam), p \in SamplePrefixes(fam)}

\* The operands of the tests of src/src/sub.rs.
InnerRange ==
    <<Net("V4", Ipv4Addr(10, 0, 0, 0), 8), Net("V4", Ipv4Addr(10, 10, 10, 0), 24)>>

SingleAddress ==
    <<Net("V4", Ipv4Addr(10, 64, 0, 0), 10), Net("V4", Ipv4Addr(10, 64, 0, 0), 32)>>

OutOfRange ==
    <<Net("V4", Ipv4Addr(25, 0, 0, 0), 8), Net("V4", Ipv4Addr(125, 92, 4, 0), 24)>>

WholeRange ==
    <<Net("V4", Ipv4Addr(25, 0, 0, 0), 8), Net("V4", Ipv4Addr(16, 0, 0, 0), 4)>>

TestPairs == {InnerRange, SingleAddress, OutOfRange, WholeRange}

AllSampleNets == SampleNets("V4") \cup SampleNets("V6")

OperandPairs ==
    {<<a, b>> : a \in AllSampleNets, b \in AllSampleNets} \cup TestPairs

Idle ==
    /\ returned = Empty("V4")
    /\ result = Empty("V4")
    /\ yielded = <<>>
    /\ pc = "start"

NoFold ==
    /\ minuends = <<>>
    /\ applied = 0
    /\ partial = <<>>

NoRequest ==
    /\ request = NoNet
    /\ made = InvalidPrefix

NoQuery ==
    /\ probe = {}
    /\ op = "none"
    /\ answer = Pending
    /\ cursor = NoCursor
    /\ walked = <<>>

NoConversion ==
    /\ sizes = <<>>
    /\ outcome = NoOutcome

Init ==
    /\ build \in Builds
    /\ NoConversion
    /\ \E pair \in OperandPairs : lhs = pair[1] /\ rhs = pair[2]
    /\ Idle
    /\ NoFold
    /\ NoRequest
    /\ NoQuery

\* self - other on two networks of one type (Ipv4Network or Ipv6Network).
Subtract ==
    /\ pc = "start"
    /\ lhs.fam = rhs.fam
    /\ LET r == Sub(lhs, rhs, build)
       IN  /\ returned' = r
           /\ result' = r
           /\ pc' = IF r.kind = "Panic" THEN "panicked" ELSE "iter"
    /\ UNCHANGED <<build, lhs, rhs, yielded, minuends, applied, partial,
                   request, made, queryVars,
                   convVars>>

\* self - other on two IpNetwork values.
SubtractIp ==
    /\ pc = "start"
    /\ LET r == IpSub(lhs, rhs, build)
       IN  /\ returned' = r
           /\ result' = r
           /\ pc' = IF r.kind = "Panic" THEN "panicked" ELSE "iter"
    /\ UNCHANGED <<build, lhs, rhs, yielded, minuends, applied, partial,
                   request, made, queryVars,
                   convVars>>

\* One call of next() on the subtraction result, also after it has returned
\* None.
Iterate ==
    /\ pc \in {"iter", "done"}
    /\ LET step == SubResultNext(result, build)
       IN  /\ result' = step.after
           /\ yielded' = IF step.out = "Some" THEN Append(yielded, step.item)
                         ELSE yielded
           /\ pc' = IF step.out = "Some" THEN "iter"
                    ELSE IF step.out = "None" THEN "done"
                    ELSE "panicked"
    /\ UNCHANGED <<build, lhs, rhs, returned, minuends, applied, partial,
                   request, made, queryVars,
                   convVars>>

Next == Subtract \/ SubtractIp \/ Iterate

Spec == Init /\ [][Next]_vars

(***************************************************************************)
(* The multi-subtrahend subtraction: impl Sub<T> for Ipv4Network,           *)
(* Ipv6Network and IpNetwork.                                               *)
(***************************************************************************)
\* The networks the fold is run on: the top two bits, prefixes 0 to 2, and
\* one single host of either family.
FoldNets(fam) ==
    {Net(fam, a, p) : a \in SUBSET {Width(fam) - 1, Width(fam) - 2},
                      p \in 0 .. 2}
        \cup {Net(fam, {Width(fam) - 1, 0}, Width(fam))}

RECURSIVE ListsOver(_, _)
ListsOver(S, n) ==
    IF n = 0 THEN {<<>>}
    ELSE LET shorter == ListsOver(S, n - 1)
         IN  shorter \cup {Append(l, x) : l \in shorter, x \in S}

\* A list for IpNetwork - [IpNetwork] with a subtrahend of the other family.
MixedList == <<Net("V4", {}, 1), Net("V6", {}, 1)>>

InitFold ==
    /\ build \in Builds
    /\ NoConversion
    /\ \E fam \in Families :
          \/ /\ lhs \in FoldNets(fam)
             /\ minuends \in ListsOver(FoldNets(fam), MaxSubtrahends)
          \/ /\ lhs = Net(fam, {}, 0)
             /\ minuends = MixedList
    /\ rhs = NoNet
    /\ Idle
    /\ applied = 0
    /\ partial = <<>>
    /\ NoRequest
    /\ NoQuery

\* let mut result = Box::new(iter::once(self)).
FoldStart ==
    /\ pc = "start"
    /\ partial' = <<lhs>>
    /\ pc' = "fold"
    /\ UNCHANGED <<build, lhs, rhs, returned, result, yielded, minuends,
                   applied, request, made, queryVars,
                   convVars>>

\* One round of the loop: result = result.flat_map(|p| p - minuend).
FoldRound ==
    /\ pc = "fold"
    /\ applied < Len(minuends)
    /\ LET round == FlatMapSub(partial, minuends[applied + 1], build)
       IN  /\ partial' = round.items
           /\ pc' = IF round.panicked THEN "panicked" ELSE "fold"
    /\ applied' = applied + 1
    /\ UNCHANGED <<build, lhs, rhs, returned, result, yielded, minuends,
                   request, made, queryVars,
                   convVars>>

\* The loop is over: the sequence built is what the returned iterator yields.
FoldReturn ==
    /\ pc = "fold"
    /\ applied = Len(minuends)
    /\ yielded' = partial
    /\ pc' = "done"
    /\ UNCHANGED <<build, lhs, rhs, returned, result, minuends, applied,
                   partial, request, made, queryVars,
                   convVars>>

NextFold == FoldStart \/ FoldRound \/ FoldReturn

SpecFold == InitFold /\ [][NextFold]_vars

(***************************************************************************)
(* Construction: Ipv4Network::new and Ipv6Network::new on any address and   *)
(* any u8 prefix.                                                           *)
(***************************************************************************)
InitNew ==
    /\ build \in Builds
    /\ NoConversion
    /\ lhs = NoNet
    /\ rhs = NoNet
    /\ Idle
    /\ NoFold
    /\ \E fam \in Families :
          request \in {Net(fam, a, p) : a \in SampleAddrs(fam),
                                        p \in 0 .. (U8_RANGE - 1)}
    /\ made = InvalidPrefix
    /\ NoQuery

CallNew ==
    /\ pc = "start"
    /\ made' = New(request.fam, request.addr, request.prefix)
    /\ pc' = "done"
    /\ UNCHANGED <<build, lhs, rhs, returned, result, yielded, minuends,
                   applied, partial, request, queryVars,
                   convVars>>

\* Ipv6Network::new_checked, called directly.
CallNewChecked ==
    /\ pc = "start"
    /\ request.fam = "V6"
    /\ made' = NewChecked6(request.addr, request.prefix)
    /\ pc' = "done"
    /\ UNCHANGED <<build, lhs, rhs, returned, result, yielded, minuends,
                   applied, partial, request, queryVars,
                   convVars>>

NextNew == CallNew \/ CallNewChecked

SpecNew == InitNew /\ [][NextNew]_vars

(***************************************************************************)
(* The queries on one network: mask(), size() and contains(ip), on any      *)
(* valid prefix.                                                            *)
(***************************************************************************)
\* The sample addresses and the address of all one-bits.
QueryAddrs(fam) == SampleAddrs(fam) \cup {Bits(Width(fam))}

QueryNets(fam) ==
    {Net(fam, a, p) : a \in QueryAddrs(fam), p \in 0 .. Width(fam)}

\* The addresses handed to contains: the sample addresses, the two ends of
\* the network's range and their neighbours outside it.
QueryProbes(n) ==
    LET w == Width(n.fam)
        host == Bits(w - n.prefix)
        lowest == n.addr \ host
        highest == n.addr \cup host
    IN  QueryAddrs(n.fam)
            \cup {lowest, highest, Dec(lowest, w), Truncate(AddPow(highest, 0), w)}

InitQuery ==
    /\ build \in Builds
    /\ NoConversion
    /\ \E fam \in Families : lhs \in QueryNets(fam)
    /\ probe \in QueryProbes(lhs)
    /\ rhs = NoNet
    /\ Idle
    /\ NoFold
    /\ NoRequest
    /\ op = "none"
    /\ answer = Pending
    /\ cursor = NoCursor
    /\ walked = <<>>

CallMask ==
    /\ pc = "start"
    /\ op' = "mask"
    /\ answer' = SomeAddr(Mask(lhs))
    /\ pc' = "done"
    /\ UNCHANGED <<build, lhs, rhs, subVars, convVars, probe, cursor, walked>>

CallSize ==
    /\ pc = "start"
    /\ op' = "size"
    /\ answer' = SomeAddr(Size(lhs))
    /\ pc' = "done"
    /\ UNCHANGED <<build, lhs, rhs, subVars, convVars, probe, cursor, walked>>

CallContains ==
    /\ pc = "start"
    /\ op' = "contains"
    /\ answer' = Truth(Contains(lhs, probe))
    /\ pc' = "done"
    /\ UNCHANGED <<build, lhs, rhs, subVars, convVars, probe, cursor, walked>>

NextQuery == CallMask \/ CallSize \/ CallContains

SpecQuery == InitQuery /\ [][NextQuery]_vars

(***************************************************************************)
(* The address iterator: iter(), next() on it, and nth(n).                  *)
(***************************************************************************)
\* The networks iterated: the two largest prefixes' worth of addresses and
\* the networks small enough to be walked from end to end.
IterNets(fam) ==
    {Net(fam, a, p) : a \in QueryAddrs(fam),
                      p \in {0, 1} \cup ((Width(fam) - WalkBits) .. Width(fam))}

\* a - j, or 0 when a < j.
RECURSIVE Back(_, _)
Back(a, j) == IF j = 0 \/ a = {} THEN a ELSE Back(Dec(a, 0), j - 1)

\* The indices handed to nth, and the numbers of calls of next() skipped:
\* the first two, the last MaxWalk ones of the network, the number of its
\* addresses, and the largest value of the type (u32 or u128).
IterProbes(n) ==
    LET w == Width(n.fam)
        count == {w - n.prefix}
    IN  {k \in {{}, {0}, Bits(w)} \cup {Back(count, j) : j \in 0 .. MaxWalk} :
            ~Overflows(k, w)}

\* The iterator after k calls of next() that each returned an address: each
\* such call adds one to the next field.
Skipped(c, k) == [c EXCEPT !.next = Add(c.next, k)]

InitIter ==
    /\ build \in Builds
    /\ NoConversion
    /\ \E fam \in Families : lhs \in IterNets(fam)
    /\ probe \in IterProbes(lhs)
    /\ rhs = NoNet
    /\ Idle
    /\ NoFold
    /\ NoRequest
    /\ op = "none"
    /\ answer = Pending
    /\ cursor = NoCursor
    /\ walked = <<>>

\* nth(probe), at any time; it leaves the iterator alone.
CallNth ==
    /\ pc # "panicked"
    /\ answer = Pending
    /\ answer' = Nth(lhs, probe, build)
    /\ UNCHANGED <<build, lhs, rhs, subVars, convVars, pc, probe, op, cursor, walked>>

CallIter ==
    /\ pc = "start"
    /\ cursor' = Iter(lhs)
    /\ op' = "iter"
    /\ pc' = "iter"
    /\ UNCHANGED <<build, lhs, rhs, subVars, convVars, probe, answer, walked>>

\* The first probe calls of next(), for a probe below the number of
\* addresses of the network, taken in one step; what they return is not
\* recorded.
SkipAhead ==
    /\ pc = "iter"
    /\ op = "iter"
    /\ walked = <<>>
    /\ probe # {}
    /\ Less(probe, {Width(lhs.fam) - lhs.prefix})
    /\ cursor' = Skipped(cursor, probe)
    /\ op' = "skip"
    /\ UNCHANGED <<build, lhs, rhs, subVars, convVars, pc, probe, answer, walked>>

\* One call of next() on the address iterator.
Advance ==
    /\ pc = "iter"
    /\ LET step == IterNext(cursor, build)
       IN  /\ Len(walked) < MaxWalk \/ step.out # "Some"
           /\ cursor' = step.after
           /\ walked' = IF step.out = "Some" THEN Append(walked, step.item)
                        ELSE walked
           /\ pc' = IF step.out = "Some" THEN "iter"
                    ELSE IF step.out = "None" THEN "done"
                    ELSE "panicked"
    /\ UNCHANGED <<build, lhs, rhs, subVars, convVars, probe, op, answer>>

NextIter == CallNth \/ CallIter \/ SkipAhead \/ Advance

SpecIter == InitIter /\ [][NextIter]_vars

(***************************************************************************)
(* The relations between two Ipv6Network values: is_subnet_of,              *)
(* is_supernet_of and overlaps.                                             *)
(***************************************************************************)
InitRel ==
    /\ build \in Builds
    /\ NoConversion
    /\ lhs \in SampleNets("V6")
    /\ rhs \in SampleNets("V6")
    /\ Idle
    /\ NoFold
    /\ NoRequest
    /\ NoQuery

CallIsSubnetOf ==
    /\ pc = "start"
    /\ op' = "is_subnet_of"
    /\ answer' = Truth(IsSubnetOf(lhs, rhs))
    /\ pc' = "done"
    /\ UNCHANGED <<build, lhs, rhs, subVars, convVars, probe, cursor, walked>>

CallIsSupernetOf ==
    /\ pc = "start"
    /\ op' = "is_supernet_of"
    /\ answer' = Truth(IsSupernetOf(lhs, rhs))
    /\ pc' = "done"
    /\ UNCHANGED <<build, lhs, rhs, subVars, convVars, probe, cursor, walked>>

CallOverlaps ==
    /\ pc = "start"
    /\ op' = "overlaps"
    /\ answer' = Truth(Overlaps(lhs, rhs))
    /\ pc' = "done"
    /\ UNCHANGED <<build, lhs, rhs, subVars, convVars, probe, cursor, walked>>

NextRel == CallIsSubnetOf \/ CallIsSupernetOf \/ CallOverlaps

SpecRel == InitRel /\ [][NextRel]_vars

(***************************************************************************)
(* The conversions from a mask to a prefix: one call of ipv4_mask_to_prefix,*)
(* ipv6_mask_to_prefix or Ipv6Network::with_netmask.  request holds the     *)
(* family and the network address, probe the mask.                          *)
(***************************************************************************)
\* The mask with p leading one-bits.
LeadingOnes(fam, p) == {b \in Bits(Width(fam)) : b >= Width(fam) - p}

\* The bits within SpanBits of a segment boundary.
StrayBits(fam) ==
    {b \in Bits(Width(fam)) :
        \/ b % IPV6_SEGMENT_BITS < SpanBits
        \/ b % IPV6_SEGMENT_BITS >= IPV6_SEGMENT_BITS - SpanBits}

\* The masks handed to the conversions: every run of leading ones, and each
\* of them with one bit near a segment boundary set or cleared.
MaskInputs(fam) ==
    {LeadingOnes(fam, p) : p \in 0 .. Width(fam)}
        \cup {LeadingOnes(fam, p) \cup {q} :
                 p \in 0 .. Width(fam), q \in StrayBits(fam)}
        \cup {LeadingOnes(fam, p) \ {q} :
                 p \in 0 .. Width(fam), q \in StrayBits(fam)}

InitMask ==
    /\ build \in Builds
    /\ NoConversion
    /\ lhs = NoNet
    /\ rhs = NoNet
    /\ Idle
    /\ NoFold
    /\ \E fam \in Families, a \in {{}, {0}} : request = Net(fam, a, 0)
    /\ made = InvalidPrefix
    /\ probe \in MaskInputs(request.fam)
    /\ op = "none"
    /\ answer = Pending
    /\ cursor = NoCursor
    /\ walked = <<>>

CallIpv4MaskToPrefix ==
    /\ pc = "start"
    /\ request.fam = "V4"
    /\ op' = "ipv4_mask_to_prefix"
    /\ outcome' = Ipv4MaskToPrefix(probe)
    /\ pc' = "done"
    /\ UNCHANGED <<build, lhs, rhs, subVars, sizes, probe, answer, cursor,
                   walked>>

CallIpv6MaskToPrefix ==
    /\ pc = "start"
    /\ request.fam = "V6"
    /\ op' = "ipv6_mask_to_prefix"
    /\ outcome' = Ipv6MaskToPrefix(probe)
    /\ pc' = "done"
    /\ UNCHANGED <<build, lhs, rhs, subVars, sizes, probe, answer, cursor,
                   walked>>

CallWithNetmask ==
    /\ pc = "start"
    /\ request.fam = "V6"
    /\ op' = "with_netmask"
    /\ made' = WithNetmask6(request.addr, probe)
    /\ pc' = "done"
    /\ UNCHANGED <<build, lhs, rhs, returned, result, yielded, minuends,
                   applied, partial, request, convVars, probe, answer, cursor,
                   walked>>

NextMask == CallIpv4MaskToPrefix \/ CallIpv6MaskToPrefix \/ CallWithNetmask

SpecMask == InitMask /\ [][NextMask]_vars

(***************************************************************************)
(* The NetworkSize operations: one comparison of two sizes, or one hash or  *)
(* one narrowing of the first of them.                                      *)
(***************************************************************************)
\* 100, the value of the tests of src/src/size.rs.
Hundred == {2, 5, 6}

\* The values below 2^SpanBits and 100.
SmallValues == (SUBSET Bits(SpanBits)) \cup {Hundred}

\* u32 values: the small ones, u32::MAX, its predecessor and 2^31.
U32Values ==
    SmallValues
        \cup {Bits(IPV4_BITS), Dec(Bits(IPV4_BITS), IPV4_BITS), {IPV4_BITS - 1}}

\* u128 values: the u32 values, those plus 2^32, u128::MAX and 2^127.
U128Values ==
    U32Values
        \cup {AddPow(v, IPV4_BITS) : v \in SmallValues}
        \cup {Bits(IPV6_BITS), {IPV6_BITS - 1}}

SizeInputs ==
    {FromU32(v) : v \in U32Values} \cup {FromU128(v) : v \in U128Values}

InitSize ==
    /\ build \in Builds
    /\ sizes \in SizeInputs \X SizeInputs
    /\ outcome = NoOutcome
    /\ lhs = NoNet
    /\ rhs = NoNet
    /\ Idle
    /\ NoFold
    /\ NoRequest
    /\ NoQuery

CallEq ==
    /\ pc = "start"
    /\ op' = "eq"
    /\ outcome' = Flag(NetworkSizeEq(sizes[1], sizes[2]))
    /\ pc' = "done"
    /\ UNCHANGED <<build, lhs, rhs, subVars, sizes, probe, answer, cursor,
                   walked>>

CallCmp ==
    /\ pc = "start"
    /\ op' = "cmp"
    /\ outcome' = Ordering(NetworkSizeCmp(sizes[1], sizes[2]))
    /\ pc' = "done"
    /\ UNCHANGED <<build, lhs, rhs, subVars, sizes, probe, answer, cursor,
                   walked>>

CallHash ==
    /\ pc = "start"
    /\ op' = "hash"
    /\ outcome' = NetworkSizeHash(sizes[1])
    /\ pc' = "done"
    /\ UNCHANGED <<build, lhs, rhs, subVars, sizes, probe, answer, cursor,
                   walked>>

CallTryFrom ==
    /\ pc = "start"
    /\ op' = "try_from"
    /\ outcome' = TryFromU32(sizes[1])
    /\ pc' = "done"
    /\ UNCHANGED <<build, lhs, rhs, subVars, sizes, probe, answer, cursor,
                   walked>>

NextSize == CallEq \/ CallCmp \/ CallHash \/ CallTryFrom

SpecSize == InitSize /\ [][NextSize]_vars

(***************************************************************************)
(* Address ranges, stated without the program's mask arithmetic.  The range *)
(* of a network is the set of addresses that agree with its stored address *)
(* on the top prefix bits; two such ranges are nested or disjoint.          *)
(***************************************************************************)
FixedBits(n) == {b \in Bits(Width(n.fam)) : b >= Width(n.fam) - n.prefix}

\* Address x (of the family of n) lies in the range of n.
InRange(x, n) == x \cap FixedBits(n) = n.addr \cap FixedBits(n)

\* The range of inner lies within the range of outer.
Within(inner, outer) ==
    /\ inner.fam = outer.fam
    /\ outer.prefix <= inner.prefix
    /\ inner.addr \cap FixedBits(outer) = outer.addr \cap FixedBits(outer)

RangesDisjoint(m, n) == ~Within(m, n) /\ ~Within(n, m)

\* The networks of a sequence have pairwise disjoint ranges.
PairwiseDisjoint(blocks) ==
    \A i, j \in DOMAIN blocks : i # j => RangesDisjoint(blocks[i], blocks[j])

\* The number of addresses of all the networks of a sequence together, as a
\* set of one-bit positions (the sizes reach 2^128).
RECURSIVE TotalSize(_)
TotalSize(blocks) ==
    IF blocks = <<>> THEN {}
    ELSE AddPow(TotalSize(Tail(blocks)),
                Width(Head(blocks).fam) - Head(blocks).prefix)

\* The ranges of blocks are pairwise disjoint and their union is the range
\* of a without the range of b, for b within a: every block lies in a and
\* apart from b, no two overlap, and together with b they count as many
\* addresses as a.
ExactDifference(blocks, a, b) ==
    /\ PairwiseDisjoint(blocks)
    /\ \A i \in DOMAIN blocks :
          Within(blocks[i], a) /\ RangesDisjoint(blocks[i], b)
    /\ AddPow(TotalSize(blocks), Width(b.fam) - b.prefix)
          = {Width(a.fam) - a.prefix}

\* Addresses to probe a cover with: the inputs' and the blocks' own corners.
Probes(blocks, a, b) ==
    LET nets == {a, b} \cup {blocks[i] : i \in DOMAIN blocks}
    IN  UNION {{n.addr \cap FixedBits(n),
                n.addr \cup (Bits(Width(n.fam)) \ FixedBits(n))} : n \in nets}

ProbesAgree(blocks, a, b) ==
    \A x \in Probes(blocks, a, b) :
        (\E i \in DOMAIN blocks : InRange(x, blocks[i]))
            <=> (InRange(x, a) /\ ~InRange(x, b))

\* Two networks are the two halves of one CIDR block.
Mergeable(m, n) ==
    /\ m.fam = n.fam
    /\ m.prefix = n.prefix
    /\ m.prefix > 0
    /\ RangesDisjoint(m, n)
    /\ Within(m, [n EXCEPT !.prefix = @ - 1])

Finished == pc \in {"done", "panicked"}

Returned == pc \in {"iter", "done"}

AsSet(seq) == {seq[i] : i \in DOMAIN seq}

(***************************************************************************)
(* The claims.                                                              *)
(***************************************************************************)

\* The 16 blocks of 10.0.0.0/8 - 10.10.10.0/24.
InnerRangeExpected ==
    {Net("V4", Ipv4Addr(10, 0, 0, 0), 13), Net("V4", Ipv4Addr(10, 8, 0, 0), 15),
     Net("V4", Ipv4Addr(10, 10, 0, 0), 21), Net("V4", Ipv4Addr(10, 10, 8, 0), 23),
     Net("V4", Ipv4Addr(10, 10, 11, 0), 24), Net("V4", Ipv4Addr(10, 10, 12, 0), 22),
     Net("V4", Ipv4Addr(10, 10, 16, 0), 20), Net("V4", Ipv4Addr(10, 10, 32, 0), 19),
     Net("V4", Ipv4Addr(10, 10, 64, 0), 18), Net("V4", Ipv4Addr(10, 10, 128, 0), 17),
     Net("V4", Ipv4Addr(10, 11, 0, 0), 16), Net("V4", Ipv4Addr(10, 12, 0, 0), 14),
     Net("V4", Ipv4Addr(10, 16, 0, 0), 12), Net("V4", Ipv4Addr(10, 32, 0, 0), 11),
     Net("V4", Ipv4Addr(10, 64, 0, 0), 10), Net("V4", Ipv4Addr(10, 128, 0, 0), 9)}

\* C1: for Ipv4Network operands with the subtrahend's range inside the
\* minuend's, the networks yielded by iterating the difference to its end are
\* pairwise disjoint and their union is exactly the minuend's range without
\* the subtrahend's; 10.0.0.0/8 - 10.10.10.0/24 yields exactly the 16 listed
\* blocks.
C1_Ipv4ExactDifference ==
    (lhs.fam = "V4" /\ rhs.fam = "V4" /\ Within(rhs, lhs) /\ Finished) =>
        /\ pc = "done"
        /\ ExactDifference(yielded, lhs, rhs)
        /\ ProbesAgree(yielded, lhs, rhs)
        /\ (<<lhs, rhs>> = InnerRange =>
                Len(yielded) = 16 /\ AsSet(yielded) = InnerRangeExpected)

C1_Witness ==
    /\ pc = "done"
    /\ <<lhs, rhs>> = InnerRange
    /\ Len(yielded) = 16

\* C2: a single same-family subtraction with the subtrahend inside the
\* minuend yields the fewest possible CIDR blocks covering exactly the
\* difference: the yielded blocks are an exact disjoint cover and no two of
\* them can be merged into one CIDR block (an exact disjoint cover without a
\* mergeable pair is the unique smallest one).
C2_FewestBlocks ==
    (lhs.fam = rhs.fam /\ Within(rhs, lhs) /\ Finished) =>
        /\ pc = "done"
        /\ ExactDifference(yielded, lhs, rhs)
        /\ \A i, j \in DOMAIN yielded : ~Mergeable(yielded[i], yielded[j])

\* The partition the trie walk prescribes: one block for each bit position b
\* from width - b.prefix up to but excluding width - a.prefix, in that order.
SiblingBlock(b, position) ==
    Net(b.fam,
        {k \in Xor(b.addr \cap FixedBits(b), {position}) : k >= position},
        Width(b.fam) - position)

PartitionOf(a, b) ==
    [i \in 1 .. (b.prefix - a.prefix) |->
        SiblingBlock(b, Width(b.fam) - b.prefix + i - 1)]

\* C3: for Ipv6Network operands with the subtrahend's range inside the
\* minuend's, iterating the difference yields exactly one block for each bit
\* position b from 128 - B.prefix up to but excluding 128 - A.prefix, the
\* block at b having prefix 128 - b and B's network address with bit b
\* flipped and the lower bits cleared, and so covers exactly the difference.
C3_Ipv6Partition ==
    (lhs.fam = "V6" /\ rhs.fam = "V6" /\ Within(rhs, lhs) /\ Finished) =>
        /\ pc = "done"
        /\ yielded = PartitionOf(lhs, rhs)
        /\ ExactDifference(yielded, lhs, rhs)

\* C5: whenever the subtrahend's range covers the whole of the minuend's
\* range, whatever host bits the operands carry, the subtraction returns and
\* iterating it yields no network at all.
C5_CoveredYieldsNothing ==
    (lhs.fam = rhs.fam /\ Within(lhs, rhs) /\ pc # "start") =>
        pc # "panicked" /\ yielded = <<>>

\* C6: when the two ranges are disjoint, the subtraction returns
\* SingleNetwork(minuend), and iterating it yields exactly one network, the
\* minuend as given, host bits and prefix included.
C6_DisjointYieldsMinuend ==
    (lhs.fam = rhs.fam /\ RangesDisjoint(lhs, rhs) /\ pc # "start") =>
        /\ Returned
        /\ returned = SingleNetwork(lhs)
        /\ yielded = (IF result = returned THEN <<>> ELSE <<lhs>>)
        /\ (pc = "done" => yielded = <<lhs>>)

C6_Witness ==
    /\ pc = "done"
    /\ lhs.fam = rhs.fam
    /\ RangesDisjoint(lhs, rhs)
    /\ lhs.addr # Network(lhs)
    /\ yielded = <<lhs>>

SelfSubtractionAborts == lhs.fam = "V6" /\ lhs.prefix > 32 /\ build = "debug"

C8_TwentyOneBlocks ==
    (<<lhs, rhs>> = SingleAddress /\ Finished) =>
        /\ pc = "done"
        /\ Len(yielded) = 21
        /\ TotalSize(yielded) = Bits(22)

\* C8 as amended: 10.64.0.0/10 - 10.64.0.0/32 yields 22 blocks (one for each
\* prefix from 32 down to 11) whose sizes sum to 2^22 - 1.
C8_TwentyTwoBlocks ==
    (<<lhs, rhs>> = SingleAddress /\ Finished) =>
        /\ pc = "done"
        /\ Len(yielded) = 22
        /\ {yielded[i].prefix : i \in DOMAIN yielded} = 11 .. 32
        /\ TotalSize(yielded) = Bits(22)

C8_Witness ==
    /\ <<lhs, rhs>> = SingleAddress
    /\ pc = "done"
    /\ Len(yielded) = 22

\* C9: subtraction of IpNetwork operands of different families never returns
\* a result: it panics, and yields neither an empty nor an unchanged result.
C9_MixedFamiliesPanic ==
    (lhs.fam # rhs.fam /\ pc # "start") =>
        /\ pc = "panicked"
        /\ returned.kind = "Panic"
        /\ yielded = <<>>

C9_Witness ==
    /\ lhs.fam = "V4"
    /\ rhs.fam = "V6"
    /\ pc = "panicked"

\* What a subtrahend takes out of the range of a: all of it, its own range,
\* or nothing.
Overlap(a, m) ==
    IF Within(a, m) THEN {Net(a.fam, a.addr \cap FixedBits(a), a.prefix)}
    ELSE IF Within(m, a) THEN {Net(m.fam, m.addr \cap FixedBits(m), m.prefix)}
    ELSE {}

\* The largest ranges the subtrahends of a list take out of a: they are
\* pairwise disjoint and their union is the part of a the list removes.
Removed(a, list) ==
    LET parts == UNION {Overlap(a, list[i]) : i \in DOMAIN list}
    IN  {m \in parts : \A n \in parts : Within(m, n) => n = m}

RECURSIVE TotalSizeOf(_)
TotalSizeOf(nets) ==
    IF nets = {} THEN {}
    ELSE LET n == CHOOSE x \in nets : TRUE
         IN  AddPow(TotalSizeOf(nets \ {n}), Width(n.fam) - n.prefix)

\* The ranges of blocks are pairwise disjoint and their union is the range
\* of a without the ranges of the members of list.
ExactRemainder(blocks, a, list) ==
    /\ PairwiseDisjoint(blocks)
    /\ \A i \in DOMAIN blocks :
          /\ Within(blocks[i], a)
          /\ \A k \in DOMAIN list : RangesDisjoint(blocks[i], list[k])
    /\ TotalSizeOf(AsSet(blocks) \cup Removed(a, list))
          = {Width(a.fam) - a.prefix}

SameFamilyList == \A k \in DOMAIN minuends : minuends[k].fam = lhs.fam

\* C4: subtracting a finite list of same-family subtrahends from a network
\* yields pairwise disjoint networks whose union is exactly the network's
\* range without the ranges of the subtrahends, for nested, overlapping,
\* duplicated and out-of-range subtrahends alike.
C4_FoldExactRemainder ==
    (SameFamilyList /\ Finished) =>
        /\ pc = "done"
        /\ ExactRemainder(yielded, lhs, minuends)

\* C10: new(address, prefix) returns InvalidPrefix exactly when prefix > W;
\* for every prefix <= W the network's ip() is the address as given, host
\* bits kept, and its prefix() is the prefix as given.
C10_NewValidatesPrefix ==
    pc = "done" =>
        /\ made.ok <=> request.prefix <= (IF request.fam = "V4" THEN 32 ELSE 128)
        /\ ~made.ok => made = InvalidPrefix
        /\ made.ok =>
              /\ made.net.fam = request.fam
              /\ Ip(made.net) = request.addr
              /\ Prefix(made.net) = request.prefix

C10_Witness ==
    /\ pc = "done"
    /\ request.fam = "V4"
    /\ request.prefix = 32
    /\ 0 \in request.addr
    /\ made.ok
    /\ Ip(made.net) = request.addr

\* The construction inside the partition cursor failed: next() passed its
\* arithmetic (no overflow check stopped it) and new() answered InvalidPrefix
\* to the prefix W - bit_position, so that expect() panicked.
CursorConstructionFailed ==
    /\ pc = "panicked"
    /\ returned.kind = "MultipleNetworks"
    /\ build = "release"

\* C11: every network that a subtraction yields has prefix <= W, as every
\* network obtained through the public operations has, and consequently the
\* construction of a network inside the partition cursor (the expect on the
\* result of new) never fails.
C11_PrefixWithinWidth ==
    /\ \A n \in {lhs, rhs} \cup AsSet(yielded) : Prefix(n) <= Width(n.fam)
    /\ ~CursorConstructionFailed

\* C12: for every prefix p in 0..W, mask() is the W-bit integer whose top p
\* bits are one and whose other W - p bits are zero; it is 0 at p = 0 and all
\* ones at p = W (Ipv4Network and Ipv6Network).
C12_MaskTopBits ==
    (pc = "done" /\ op = "mask") =>
        /\ answer.kind = "Some"
        /\ answer.bits = {b \in Bits(Width(lhs.fam)) :
                              b >= Width(lhs.fam) - lhs.prefix}
        /\ Cardinality(answer.bits) = lhs.prefix
        /\ (lhs.prefix = 0 => answer.bits = {})
        /\ (lhs.prefix = Width(lhs.fam) => answer.bits = Bits(Width(lhs.fam)))

C12_Witness ==
    /\ pc = "done"
    /\ op = "mask"
    /\ lhs.fam = "V6"
    /\ lhs.prefix = 0
    /\ answer.bits = {}

\* C13: contains(a) is true exactly when a and the stored address agree on
\* the top prefix bits, equivalently when network() <= a <= broadcast()
\* numerically; every address is contained at prefix 0 and only the stored
\* address at prefix W, host bits in the stored address or not.
C13_ContainsIsRange ==
    (pc = "done" /\ op = "contains") =>
        /\ answer.kind = "Bool"
        /\ answer.flag <=> (probe \cap FixedBits(lhs) = lhs.addr \cap FixedBits(lhs))
        /\ answer.flag <=> (Leq(Network(lhs), probe) /\ Leq(probe, Broadcast(lhs)))
        /\ (lhs.prefix = 0 => answer.flag)
        /\ (lhs.prefix = Width(lhs.fam) => (answer.flag <=> probe = Ip(lhs)))

C13_Witness ==
    /\ pc = "done"
    /\ op = "contains"
    /\ Ip(lhs) # Network(lhs)
    /\ probe = Broadcast(lhs)
    /\ lhs.prefix \in 1 .. (Width(lhs.fam) - 1)
    /\ answer.flag

C15_Ipv4SizeOfAllIsMax ==
    (pc = "done" /\ op = "size" /\ lhs = Net("V4", {}, 0)) =>
        answer.bits = Bits(32)

\* C16: Ipv6Network::size() is exactly 2^(128 - prefix) for every prefix in
\* 1..128, and u128::MAX (128 one-bits, not an overflowed 0) at prefix 0.
C16_Ipv6Size ==
    (pc = "done" /\ op = "size" /\ lhs.fam = "V6") =>
        /\ answer.kind = "Some"
        /\ (lhs.prefix >= 1 =>
                /\ answer.bits = {128 - lhs.prefix}
                /\ Add(Network(lhs), answer.bits) = AddPow(Broadcast(lhs), 0))
        /\ (lhs.prefix = 0 => answer.bits = Bits(128) /\ answer.bits # {})

C16_Witness ==
    /\ pc = "done"
    /\ op = "size"
    /\ lhs.fam = "V6"
    /\ lhs.prefix = 0
    /\ answer.bits = Bits(128)

\* The lowest and the highest address of the range of n, and the number a
\* small set of one-bits stands for.
Lowest(n) == n.addr \ Bits(Width(n.fam) - n.prefix)

Highest(n) == n.addr \cup Bits(Width(n.fam) - n.prefix)

RECURSIVE Value(_)
Value(a) == IF a = {} THEN 0 ELSE 2 ^ MinBit(a) + Value(a \ {MinBit(a)})

\* C17: nth(n) is present exactly when n < size(), and is then network() + n
\* (the lowest address with the bits of n in its host part, nothing carried
\* over), which is the (n+1)-th address iter() yields; nth(size()) is absent;
\* the addition never overflows.
C17_NthIsIterItem ==
    answer # Pending =>
        /\ answer.kind \in {"Some", "None"}
        /\ answer.kind = "Some" <=> Less(probe, Size(lhs))
        /\ (probe = Size(lhs) => answer = NoneAddr)
        /\ answer.kind = "Some" =>
              /\ probe \cap Lowest(lhs) = {}
              /\ answer.bits = Lowest(lhs) \cup probe
              /\ (op = "skip" /\ walked # <<>> => walked[1] = answer.bits)
              /\ (op = "iter" /\ probe \subseteq Bits(WalkBits + 2)
                     /\ Value(probe) < Len(walked) =>
                        walked[Value(probe) + 1] = answer.bits)

C17_Witness ==
    /\ answer.kind = "Some"
    /\ op = "iter"
    /\ pc = "done"
    /\ Ip(lhs) # Network(lhs)
    /\ probe = {0, 1}
    /\ Len(walked) = 4
    /\ walked[4] = answer.bits

\* C18: advancing iter() yields network(), network() + 1, ..., broadcast()
\* in strictly increasing order, each address once, and then signals
\* exhaustion, for every prefix and any host bits in the stored address; at
\* prefix 0 it stops after the highest address, without wrapping around to 0
\* and without going on.
C18_IterWalksRange ==
    /\ pc # "panicked"
    /\ pc \in {"iter", "done"} =>
          /\ walked # <<>> =>
                walked[1] = (IF op = "skip"
                             THEN Truncate(Add(Lowest(lhs), probe), Width(lhs.fam))
                             ELSE Lowest(lhs))
          /\ \A i \in DOMAIN walked :
                /\ Leq(Lowest(lhs), walked[i])
                /\ Leq(walked[i], Highest(lhs))
                /\ i < Len(walked) =>
                      /\ walked[i + 1] = AddPow(walked[i], 0)
                      /\ Less(walked[i], walked[i + 1])
          /\ pc = "done" =>
                /\ walked # <<>>
                /\ walked[Len(walked)] = Highest(lhs)
                /\ walked[Len(walked)] = Broadcast(lhs)
                /\ (op = "iter" => /\ walked[1] = Network(lhs)
                                   /\ Len(walked) = 2 ^ (Width(lhs.fam) - lhs.prefix))

C18_Witness ==
    /\ pc = "done"
    /\ lhs.prefix = 0
    /\ Len(walked) = MaxWalk
    /\ walked[Len(walked)] = Bits(Width(lhs.fam))

\* C19: for Ipv6Network values a and b, host bits in the stored addresses or
\* not, a.is_subnet_of(b) is true exactly when b.network() <= a.network()
\* and b.broadcast() >= a.broadcast(), that is exactly when the range of a
\* lies within the range of b.
C19_SubnetIsRangeInclusion ==
    (pc = "done" /\ op = "is_subnet_of") =>
        /\ answer.flag <=> (/\ Leq(Network(rhs), Network(lhs))
                            /\ Leq(Broadcast(lhs), Broadcast(rhs)))
        /\ answer.flag <=> Within(lhs, rhs)

\* The two ranges share an address.  Ranges of networks are nested or
\* disjoint, so a shared address shows at an end of one of them.
ShareAnAddress(a, b) ==
    \E x \in {Lowest(a), Highest(a), Lowest(b), Highest(b)} :
        InRange(x, a) /\ InRange(x, b)

\* C20: for Ipv6Network values a and b, a.overlaps(b) is true exactly when
\* the two ranges share at least one address; the relation is symmetric and
\* reflexive.
C20_OverlapsIsSharedAddress ==
    (pc = "done" /\ op = "overlaps") =>
        /\ answer.kind = "Bool"
        /\ answer.flag <=> ShareAnAddress(lhs, rhs)
        /\ answer.flag <=> (Within(lhs, rhs) \/ Within(rhs, lhs))
        /\ answer.flag <=> Overlaps(rhs, lhs)
        /\ (lhs = rhs => answer.flag)

C20_Witness ==
    /\ pc = "done"
    /\ op = "overlaps"
    /\ Within(rhs, lhs)
    /\ ~InRange(Ip(lhs), rhs)
    /\ ~InRange(Broadcast(lhs), rhs)
    /\ Ip(rhs) # Network(rhs)
    /\ answer.flag

\* A one-bit somewhere after (below) a zero-bit of a w-bit mask.
OneAfterZero(mask, w) ==
    \E hi \in Bits(w) \ mask : \E lo \in mask : lo < hi

\* C21: ipv4_mask_to_prefix and ipv6_mask_to_prefix return Ok(p) for the mask
\* of exactly p leading one-bits followed only by zero-bits, for every p in
\* 0..=W (the round trip from the mask of prefix p gives p back), and
\* InvalidPrefix for every mask with a one-bit after a zero-bit.
C21_MaskToPrefixRoundTrip ==
    (pc = "done" /\ op \in {"ipv4_mask_to_prefix", "ipv6_mask_to_prefix"}) =>
        LET fam == request.fam
            w == Width(fam)
        IN  IF OneAfterZero(probe, w)
            THEN outcome = ErrInvalidPrefix
            ELSE LET p == Cardinality(probe)
                 IN  /\ probe = LeadingOnes(fam, p)
                     /\ probe = Mask(Net(fam, {}, p))
                     /\ outcome = OkPrefix(p)

\* C21 witness: the mask of 17 leading one-bits, which ends inside the second
\* segment, has gone through ipv6_mask_to_prefix and came back as Ok(17).
C21_Witness ==
    /\ pc = "done"
    /\ op = "ipv6_mask_to_prefix"
    /\ probe = LeadingOnes("V6", IPV6_SEGMENT_BITS + 1)
    /\ outcome = OkPrefix(IPV6_SEGMENT_BITS + 1)

\* The numeric value of x is below that of y: going down from the top, the
\* first bit in which they differ is a one-bit of y.
NumericallyBelow(x, y) ==
    \E k \in y : k \notin x /\ \A j \in (x \cup y) : j > k => (j \in x <=> j \in y)

\* C22: equality, ordering and hashing of NetworkSize depend only on the
\* numeric value, never on the tag: two sizes are equal iff their values are,
\* their ordering is the ordering of their values, and sizes that compare
\* equal feed the hasher the same data.
C22_SizeComparedByValue ==
    pc = "done" =>
        LET x == sizes[1].value
            y == sizes[2].value
        IN  /\ op = "eq" => (outcome = Flag(TRUE) <=> x = y)
            /\ op = "cmp" =>
                   /\ outcome = Ordering("Less") <=> NumericallyBelow(x, y)
                   /\ outcome = Ordering("Equal") <=> x = y
                   /\ outcome = Ordering("Greater") <=> NumericallyBelow(y, x)
            /\ (op = "hash" /\ x = y) => outcome = NetworkSizeHash(sizes[2])

\* C22 witness: V4(100) and V6(100) have been compared and found equal.
C22_Witness ==
    /\ pc = "done"
    /\ op = "eq"
    /\ sizes = <<V4(Hundred), V6(Hundred)>>
    /\ outcome = Flag(TRUE)

\* C23: narrowing a NetworkSize to u32 fails with NetworkIsTooLarge whenever
\* the value exceeds u32::MAX, and whenever it succeeds the u32 returned is
\* the value itself.
C23_NarrowingIsExact ==
    (pc = "done" /\ op = "try_from") =>
        LET x == sizes[1].value
        IN  /\ Overflows(x, IPV4_BITS) => outcome = ErrNetworkIsTooLarge
            /\ outcome.kind = "Ok" => outcome.bits = x

\* C23 witness: V6(2^32 + 100) has been narrowed and gave NetworkIsTooLarge.
C23_Witness ==
    /\ pc = "done"
    /\ op = "try_from"
    /\ sizes[1] = V6(Hundred \cup {IPV4_BITS})
    /\ outcome = ErrNetworkIsTooLarge

C24_Ipv6SubtractionCompletes ==
    (lhs.fam = "V6" /\ rhs.fam = "V6") =>
        /\ pc # "panicked"
        /\ returned.kind = "MultipleNetworks" =>
               /\ returned.range.bit_position <= IPV6_BITS
               /\ returned.range.max_bit_position <= IPV6_BITS

\* The partition test of the code, stated on ranges: the range of other lies
\* within the range of self, or other is a strict supernet of self with the
\* same network address.
SupernetAtSameAddress(self, other) ==
    /\ self.fam = other.fam
    /\ other.prefix < self.prefix
    /\ Lowest(other) = Lowest(self)

CursorAfter(first, k) == [first EXCEPT !.bit_position = @ + k]

\* C26: a subtraction result is a one-pass iterator with an absorbing end:
\* Empty yields nothing; SingleNetwork yields its network once and becomes
\* Empty; MultipleNetworks yields the items of its cursor and becomes Empty
\* on the first call that finds the cursor exhausted; once next() has
\* returned None the state is Empty and the next call returns None and
\* leaves it so; every item has the family of the result.
C26_OnePassIterator ==
    pc \in {"iter", "done"} =>
        LET fam == returned.fam
        IN  /\ result.fam = fam
            /\ \A i \in 1 .. Len(yielded) : yielded[i].fam = fam
            /\ returned.kind = "Empty" =>
                   yielded = <<>> /\ result = Empty(fam)
            /\ returned.kind = "SingleNetwork" =>
                   \/ yielded = <<>> /\ result = returned /\ pc = "iter"
                   \/ yielded = <<returned.net>> /\ result = Empty(fam)
            /\ returned.kind = "MultipleNetworks" =>
                   LET first == returned.range
                       last == CursorAfter(first, Len(yielded))
                   IN  /\ \A i \in 1 .. Len(yielded) :
                              SubSetNext(fam, CursorAfter(first, i - 1), build)
                                  = StepSome(yielded[i], CursorAfter(first, i))
                       /\ pc = "iter" =>
                              result = MultipleNetworks(fam, last)
                       /\ pc = "done" =>
                              SubSetNext(fam, last, build).out = "None"
            /\ pc = "done" =>
                   /\ result = Empty(fam)
                   /\ SubResultNext(result, build) = StepNone(Empty(fam))

\* C26 witness: the result of 10.0.0.0/8 - 10.10.10.0/24, a MultipleNetworks
\* value, has yielded its sixteen blocks, returned None and is Empty.
C26_Witness ==
    /\ pc = "done"
    /\ <<lhs, rhs>> = InnerRange
    /\ returned.kind = "MultipleNetworks"
    /\ Len(yielded) = 16
    /\ result = Empty("V4")

\* C27: the partition cursor yields its blocks in increasing bit-position
\* order: each successful next() adds one to bit_position and leaves the base
\* address and max_bit_position alone, a next() that returns None changes
\* nothing, the prefixes yielded go down by one from subtrahend.prefix to
\* minuend.prefix + 1, and the cursor ends after max_bit_position -
\* bit_position items (none when it starts beyond its end).
C27_CursorStepsInOrder ==
    (pc \in {"iter", "done"} /\ lhs.fam = rhs.fam
         /\ returned.kind = "MultipleNetworks") =>
        LET first == returned.range
            count == IF first.bit_position <= first.max_bit_position
                     THEN first.max_bit_position - first.bit_position
                     ELSE 0
        IN  /\ pc = "iter" =>
                   result.range =
                       [first EXCEPT !.bit_position = @ + Len(yielded)]
            /\ \A i \in 1 .. Len(yielded) :
                   yielded[i].prefix = rhs.prefix - (i - 1)
            /\ Len(yielded) <= count
            /\ pc = "done" =>
                   /\ Len(yielded) = count
                   /\ Within(rhs, lhs) => count = rhs.prefix - lhs.prefix

\* A small natural number as an unsigned integer.
NatBits(k) == {i \in 0 .. 7 : (k \div (2 ^ i)) % 2 = 1}

\* The number of calls of next() that returned an address so far: those
\* skipped and those recorded.
YieldedSoFar == Add(IF op = "skip" THEN probe ELSE {}, NatBits(Len(walked)))

\* The index of the i-th recorded address in the sequence iter() yields.
IndexOf(i) == Add(IF op = "skip" THEN probe ELSE {}, NatBits(i - 1))

Reordered(list) ==
    {[i \in DOMAIN list |-> list[f[i]]] : f \in Permutations(DOMAIN list)}

\* C30: the multi-subtrahend fold does not depend on the order of the
\* subtrahends: with the same list of same-family subtrahends in any other
\* order the fold yields the same set of networks; subtracting the empty list
\* yields exactly the network itself.
C30_FoldOrderIndependent ==
    (pc = "done" /\ SameFamilyList) =>
        /\ \A list \in Reordered(minuends) :
               LET other == FoldFrom(<<lhs>>, list, build)
               IN  /\ ~other.panicked
                   /\ AsSet(other.items) = AsSet(yielded)
        /\ minuends = <<>> => yielded = <<lhs>>

==========================================================================
